---- MODULE Spec2Model ----
(***************************************************************************)
(* Model of packages/mcp-server-utils/src/auth/auth.ts: the OAuth device   *)
(* authorization flow (authorize, pollForToken, the interactive prompt),   *)
(* token refresh, OAuth discovery, and the exported entry points.          *)
(*                                                                         *)
(* Granularity.  The program runs on the Node.js event loop.  One action   *)
(* of the model is one event-loop task (an I/O completion, a timer, a      *)
(* line of terminal input) together with every promise continuation it     *)
(* makes runnable: promise reactions run to completion before the next     *)
(* task is taken, so no other task can be observed in between.             *)
(*                                                                         *)
(* Time is in milliseconds, as Date.now() is.                              *)
(***************************************************************************)
EXTENDS Integers, Sequences, FiniteSets, TLC

VARIABLES
    entry,         \* the exported function that was called
    config,        \* what getConfig() resolves to for this process
    isTTY,         \* process.stdin.isTTY
    store,         \* the token store (loadTokens / saveTokens)
    store0,        \* what the token store held when the call started
    retTokens,     \* the Tokens forceAuthorize returned (NullTokens: none)
    refreshTokenSent, \* the refresh_token parameter of the refresh request, "none" before it
    refreshAnswer, \* the answer of the token endpoint to the refresh request
    now,           \* Date.now()
    proc,          \* "running", or "crashed" once an unhandled rejection killed the process
    pc,            \* where the call is suspended
    result,        \* what the call returned ("true"/"false" from ensureAuthTokenPresence,
                   \* "tokens" from forceAuthorize, "void" from forceRefreshTokens) or the
                   \* error code it threw
    authz,         \* authorize(): "notcalled", "refused", "running", "returned", "threw"
    abortCreated,  \* authorize created its AbortController (line 535)
    aborted,       \* abortController.signal.aborted
    promptState,   \* promptUserAndOpenVerificationPage: "none", "waiting", "opened", "cancelled"
    opens,         \* number of times open(verification_uri) was invoked
    enterProcessed,\* the readline 'line' handler ran
    lateEnter,     \* Enter was pressed after the readline interface was closed
    raceOrder,     \* which came first: "enterFirst" (the line handler), "settleFirst" (the poll
                   \* promise settling), or "none" yet
    interval,      \* authResponse.interval, in seconds
    pollState,     \* the promise of pollForToken: "none", "pending", "resolved", "rejected"
    pollValue,     \* the value the promise resolved with
    pollError,     \* the error code the promise rejected with
    timers,        \* number of pending timers set by setTimeout(poll, ...)
    inflight,      \* number of poll() calls awaiting the answer to their request
    timerAt,       \* when the pending timer is due
    startTime,     \* startTime of pollForToken (line 627)
    settledAt,     \* Date.now() when the promise settled
    pollReqTimes,  \* Date.now() at each request to the token endpoint, in order
    pendingCount,  \* number of 'authorization_pending' answers received
    lastResponse,  \* the last answer of the token endpoint to a poll request
    dropped,       \* a poll() promise rejected with nobody handling it
    reqs,          \* requests sent: discovery runs, device-grant requests, refresh requests
    storeReads,    \* calls of loadTokens
    storeWrites,   \* calls of saveTokens
    events,        \* the steps of ensureAuthTokenPresence, in order: "load", "checkExpired" or
                   \* "checkFresh" (what tokens.isExpired() found), "refreshLoad" (the
                   \* loadTokens of forceRefreshTokens), "refresh" (the request), "reload"
    firstLoad,     \* what loadTokens returned at line 70: "notloaded", "null", "tokens"
    netFailure,    \* the stage at which a network or parse failure happened, or "none"
    discReqs,      \* the metadata URLs discoverOAuthConfig requested so far, in order
    found,         \* issuer, clientId, clientSecret as discoverOAuthConfig holds them
    prAnswer,      \* the answer of the protected resource metadata URL, if requested
    oidcAnswer,    \* the answer of .well-known/openid-configuration, if requested
    oasAnswer,     \* the answer of .well-known/oauth-authorization-server, if requested
    oauthCfg,      \* the config discoverOAuthConfig / attemptUpgradeConfigToOAuth returned
    metadata,      \* the OAuth metadata cache (saveOAuthMetadata)
    metadataWrites,\* calls of saveOAuthMetadata
    round,         \* 1: the call; 2: attemptUpgradeConfigToOAuth applied again to its result
    firstCfg,      \* what the first application returned
    firstMetadata, \* the metadata cache after the first application
    firstReqs,     \* the number of metadata requests of the first application
    calls,         \* two overlapping calls sharing the token store: for each its entry
                   \* point, position, the tokens it loaded and what it sent and received
    arrivals,      \* the callers whose refresh response arrived, in order of arrival
    saves          \* the callers that called saveTokens, in order

vars == << entry, config, isTTY, store, store0, retTokens, refreshTokenSent,
           refreshAnswer, now, proc, pc, result, authz, abortCreated, aborted,
           promptState, opens, enterProcessed, lateEnter, raceOrder, interval, pollState,
           pollValue, pollError, timers, inflight, timerAt, startTime, settledAt,
           pollReqTimes,
           pendingCount, lastResponse, dropped, reqs, storeReads, storeWrites,
           events, firstLoad, netFailure, discReqs, found, prAnswer, oidcAnswer, oasAnswer,
           oauthCfg, metadata, metadataWrites, round, firstCfg, firstMetadata, firstReqs,
           calls, arrivals, saves >>

authVars   == << authz, abortCreated, aborted >>
promptVars == << promptState, opens, enterProcessed, lateEnter, raceOrder >>
pollVars   == << interval, pollState, pollValue, pollError, timers, inflight, timerAt, startTime,
                 settledAt, pollReqTimes, pendingCount, lastResponse, dropped >>
envVars    == << entry, config, isTTY, store0 >>
refreshVars == << refreshTokenSent, refreshAnswer >>
discVars   == << discReqs, found, prAnswer, oidcAnswer, oasAnswer, oauthCfg, metadata,
                 metadataWrites >>
twoVars    == << calls, arrivals, saves >>
againVars  == << round, firstCfg, firstMetadata, firstReqs >>

(***************************************************************************)
(* Bounds and inputs                                                       *)
(***************************************************************************)
\* At most this many requests are sent to the token endpoint by one pollForToken.
MaxRequests == 5

\* authResponse.interval values (seconds) the authorization server may advise.
Intervals == {150, 300, 700}
\* Time a request to the token or device authorization endpoint takes (ms).
Latencies == {0, 50000, 250000}
\* How late after its due time a timer may fire (ms), on the clock Date.now()
\* reads.  setTimeout runs on the monotonic clock and both clocks are cut to
\* milliseconds, so a timer can fire when Date.now() is 1 ms short of the time
\* it was set plus its delay.
TimerEarlyMs == 1
Lateness == {-TimerEarlyMs, 0, 50000}
\* expires_in values (seconds) of token responses.
ExpiresIns == {0, 3600}

Undefined == "undefined"
\* An object that has no such key, as opposed to a key whose value is undefined.
Absent == "absent"

(***************************************************************************)
(* Config (../config/index.js)                                             *)
(***************************************************************************)
MakeConfig(type, i, c, s, dev, tok) ==
    [authType |-> type, issuer |-> i, clientId |-> c, clientSecret |-> s,
     authorizationEndpoint |-> dev, tokenEndpoint |-> tok]
\* Stands for "no config": what a call that threw has returned.
NoConfig == MakeConfig("none", Undefined, Undefined, Undefined, Undefined, Undefined)
TokenConfig == MakeConfig("token", Undefined, Undefined, Undefined, Undefined, Undefined)
OAuthConfig == MakeConfig("oauth", "iss", "cid", Undefined, "dev", "tok")
\* A basic config may carry issuer, clientId and clientSecret (e.g. from
\* environment variables) or lack them.
BasicConfigs ==
    { MakeConfig("basic", i, c, s, Undefined, Undefined) :
        i \in {Undefined, "iss"}, c \in {Undefined, "cid"}, s \in {Undefined, "sec"} }
\* An OAuth config may lack the clientSecret key, have it with the value
\* undefined, or carry a secret.
OAuthConfigs ==
    { [OAuthConfig EXCEPT !.clientSecret = s] : s \in {Absent, Undefined, "sec"} }
Configs == {TokenConfig} \cup OAuthConfigs \cup BasicConfigs

isGleanTokenConfig(cfg) == cfg.authType = "token"
isOAuthConfig(cfg) == cfg.authType = "oauth"
isBasicConfig(cfg) == cfg.authType = "basic"

(***************************************************************************)
(* Tokens (./token-store.js) and token endpoint answers (./types.js)       *)
(***************************************************************************)
NullTokens ==
    [present |-> FALSE, accessToken |-> Undefined, refreshToken |-> Undefined,
     hasExpiry |-> FALSE, expiresAt |-> 0]

\* An answer of the token endpoint: throws = the fetch rejected or the body was
\* not JSON; otherwise the fields of the JSON body.
Answer(th, at, rt, ex, er) ==
    [throws |-> th, access_token |-> at, refresh_token |-> rt, expires_in |-> ex,
     error |-> er]
FailedAnswer == Answer(TRUE, Undefined, Undefined, 0, Undefined)
SuccessAnswers(at, rt) ==
    { Answer(FALSE, at, r, e, Undefined) : r \in {rt, Undefined}, e \in ExpiresIns }
ErrorAnswers ==
    { Answer(FALSE, Undefined, Undefined, 0, er) :
        er \in {"authorization_pending", "access_denied", "slow_down", Undefined} }
PollAnswers == SuccessAnswers("at_dev", "rt_dev") \cup ErrorAnswers \cup {FailedAnswer}
RefreshAnswers ==
    SuccessAnswers("at_ref", "rt_ref")
      \cup {Answer(FALSE, Undefined, Undefined, 0, "invalid_grant"), FailedAnswer}

isTokenSuccess(r) == r.access_token # Undefined

buildFromTokenResponse(r, t) ==
    [present |-> TRUE, accessToken |-> r.access_token, refreshToken |-> r.refresh_token,
     hasExpiry |-> TRUE, expiresAt |-> t + r.expires_in * 1000]

isExpired(tokens, t) == tokens.hasExpiry /\ t >= tokens.expiresAt

\* What the token store may hold when the call starts.
InitialStores ==
    {NullTokens}
      \cup { buildFromTokenResponse(r, 0) : r \in SuccessAnswers("at_old", "rt_old") }
      \cup { [present |-> TRUE, accessToken |-> "at_old", refreshToken |-> "rt_old",
              hasExpiry |-> FALSE, expiresAt |-> 0] }

(***************************************************************************)
(* Error codes (./error.js)                                                *)
(***************************************************************************)
ProtectedResourceErrors ==
    {"ProtectedResourceMetadataNetwork", "ProtectedResourceMetadataNotOk",
     "ProtectedResourceMetadataParse", "ProtectedResourceMetadataMissingAuthServers",
     "ProtectedResourceMetadataMissingClientId"}
AuthServerErrors ==
    {"AuthServerMetadataNetwork", "AuthServerMetadataParse",
     "AuthServerMetadataMissingTokenEndpoint", "AuthServerMetadataMissingDeviceEndpoint"}
AuthErrorCodes ==
    ProtectedResourceErrors \cup AuthServerErrors
      \cup {"GleanTokenConfigUsedForOAuth", "GleanTokenConfigUsedForOAuthRefresh",
            "InvalidConfig", "NoInteractiveTerminal", "UnexpectedAuthGrantError",
            "UnexpectedAuthGrantResponse", "OAuthPollingTimeout", "RefreshTokenNotFound",
            "RefreshTokenMissing", "UnexpectedAccessTokenResponse", "FetchTokenServerError"}
\* The codes that report a failed fetch or an unparseable body.
NetworkOrParseErrors ==
    {"ProtectedResourceMetadataNetwork", "ProtectedResourceMetadataParse",
     "AuthServerMetadataNetwork", "AuthServerMetadataParse"}

\* An error that is no AuthError: what fetch() or response.json() throws, or
\* reading a member of null.
RawError == "TypeError"
\* The plain Error authorize wraps such an error in; it carries no code.
PlainError == "Error"

(***************************************************************************)
(* Discovery, as far as the caller sees it: getConfig({discoverOAuth: true})*)
(***************************************************************************)
NeedsProtectedResource_Always(cfg) == TRUE
NeedsProtectedResource(cfg) == cfg.issuer = Undefined \/ cfg.clientId = Undefined

\* What discoverOAuthConfig can end with for this config: "ok" or an error
\* code.  A token config is refused (234-238), an OAuth config is returned as
\* it is (239-241), a basic config goes through the metadata requests, where
\* a body of JSON null ends it with a TypeError that is no AuthError.
DiscoveryOutcomes(cfg) ==
    IF isGleanTokenConfig(cfg) THEN {"InvalidConfig"}
    ELSE IF isOAuthConfig(cfg) THEN {"ok"}
    ELSE {"ok", RawError} \cup AuthServerErrors
           \cup (IF NeedsProtectedResource(cfg) THEN ProtectedResourceErrors ELSE {})

\* What getConfig({ discoverOAuth: true }) can end with: it upgrades the
\* config as attemptUpgradeConfigToOAuth does, which hands a token config back
\* without discovery (196-198).
GetConfigOutcomes(cfg) ==
    IF isGleanTokenConfig(cfg) THEN {"ok"} ELSE DiscoveryOutcomes(cfg)

(***************************************************************************)
(* discoverOAuthConfig, request by request                                 *)
(***************************************************************************)
\* A JSON value that is either absent or an array of strings.
JsonUndefined == [type |-> "undefined", items |-> << >>]
JsonArray(items) == [type |-> "array", items |-> items]

\* Answers of {origin}/.well-known/oauth-protected-resource: the fetch throws
\* ("network"), the status is not 2xx ("notOk"), the body is no JSON
\* ("unparseable"), it is the JSON value null ("null"), or it is a JSON object
\* ("json") with these members.
PRAnswer(k, servers, cid, sec) ==
    [kind |-> k, authorization_servers |-> servers,
     glean_device_flow_client_id |-> cid, glean_device_flow_client_sec |-> sec]
NoPRAnswer == PRAnswer("none", JsonUndefined, Undefined, Undefined)
PRAnswers ==
    { PRAnswer(k, JsonUndefined, Undefined, Undefined) :
        k \in {"network", "notOk", "unparseable", "null"} }
      \cup { PRAnswer("json", servers, cid, sec) :
               servers \in {JsonUndefined, JsonArray(<< >>), JsonArray(<< "iss_pr" >>),
                            JsonArray(<< "iss_pr", "iss_pr2" >>)},
               cid \in {Undefined, "cid_pr"},
               sec \in {Undefined, "sec_pr"} }

\* Answers of the two authorization server metadata URLs.
ASAnswer(k, tok, dev) ==
    [kind |-> k, token_endpoint |-> tok, device_authorization_endpoint |-> dev]
NoASAnswer == ASAnswer("none", Undefined, Undefined)
ASAnswers ==
    { ASAnswer(k, Undefined, Undefined) :
        k \in {"network", "notOk", "unparseable", "null"} }
      \cup { ASAnswer("json", tok, dev) :
               tok \in {Undefined, "tok_as"}, dev \in {Undefined, "dev_as"} }

\* issuer = authServers[0] when authorization_servers is a non-empty array.
FirstAuthServer(a) ==
    IF a.authorization_servers.type = "array" /\ Len(a.authorization_servers.items) > 0
      THEN a.authorization_servers.items[1]
      ELSE Undefined

\* The code fetchProtectedResourceMetadata throws for this answer, "none" when
\* it returns.  responseJson['authorization_servers'] (404) is read outside the
\* try/catch, so a body of null throws a TypeError.
ProtectedResourceFailure(a) ==
    IF a.kind = "network" THEN "ProtectedResourceMetadataNetwork"
    ELSE IF a.kind = "notOk" THEN "ProtectedResourceMetadataNotOk"
    ELSE IF a.kind = "unparseable" THEN "ProtectedResourceMetadataParse"
    ELSE IF a.kind = "null" THEN RawError
    ELSE IF FirstAuthServer(a) = Undefined
      THEN "ProtectedResourceMetadataMissingAuthServers"
    ELSE IF a.glean_device_flow_client_id = Undefined
      THEN "ProtectedResourceMetadataMissingClientId"
    ELSE "none"

\* What fetchProtectedResourceMetadata returns.
ProtectedResourceMetadata(a) ==
    [issuer |-> FirstAuthServer(a), clientId |-> a.glean_device_flow_client_id,
     clientSecret |-> a.glean_device_flow_client_sec]

\* What reading cfg.clientSecret yields: undefined when the key is absent.
SecretOf(cfg) == IF cfg.clientSecret = Absent THEN Undefined ELSE cfg.clientSecret

\* attemptUpgradeConfigToOAuth deletes the clientSecret key of the config it
\* got from discoverOAuthConfig when the key is there with the value undefined.
DropUndefinedSecret_Keep(cfg) == cfg
DropUndefinedSecret(cfg) ==
    IF cfg.clientSecret = Undefined THEN [cfg EXCEPT !.clientSecret = Absent] ELSE cfg

\* issuer, clientId and clientSecret as destructured from the config.
FromConfig(cfg) ==
    [issuer |-> cfg.issuer, clientId |-> cfg.clientId, clientSecret |-> SecretOf(cfg)]
NothingFound == [issuer |-> Undefined, clientId |-> Undefined, clientSecret |-> Undefined]

\* fetchOpenIdConfiguration / fetchOauthAuthorizationServerConfig throw when the
\* fetch throws or the status is not 2xx.
FetchThrows(a) == a.kind \in {"network", "notOk"}

\* fetchAuthorizationServerMetadata requests the fallback URL exactly when
\* fetchOpenIdConfiguration threw.
FallsBack_OnAnyFailure(a) ==
    \/ a.kind # "json"
    \/ a.token_endpoint = Undefined
    \/ a.device_authorization_endpoint = Undefined
FallsBack(a) == FetchThrows(a)

\* The code fetchAuthorizationServerMetadata throws for the answer it ends up
\* with, "none" when it returns the two endpoints.  A body of null throws a
\* TypeError at responseJson['device_authorization_endpoint'] (340).
AuthServerMetadataFailure(a) ==
    IF FetchThrows(a) THEN "AuthServerMetadataNetwork"
    ELSE IF a.kind = "unparseable" THEN "AuthServerMetadataParse"
    ELSE IF a.kind = "null" THEN RawError
    ELSE IF a.token_endpoint = Undefined THEN "AuthServerMetadataMissingTokenEndpoint"
    ELSE IF a.device_authorization_endpoint = Undefined
      THEN "AuthServerMetadataMissingDeviceEndpoint"
    ELSE "none"

\* The GleanOAuthConfig discoverOAuthConfig assembles (lines 257-265).
AssembleOAuthConfig(f, a) ==
    MakeConfig("oauth", f.issuer, f.clientId, f.clientSecret,
               a.device_authorization_endpoint, a.token_endpoint)

(***************************************************************************)
(* pollForToken                                                            *)
(***************************************************************************)
\* A definition X_<Fault> placed right above X states X with one plausible
\* fault; the properties are re-checked with X replaced by it to show that
\* they depend on X.
timeoutMs == 10 * 60 * 1000

IsTimedOut_NoStart(t, start) == t >= timeoutMs
IsTimedOut_Strict(t, start) == t - start > timeoutMs
IsTimedOut(t, start) == t - start >= timeoutMs

TickDelayMs_Unscaled(iv) == iv
TickDelayMs(iv) == iv * 1000

\* What poll() does with the parsed answer r of the token endpoint.
Classify_RetryAnyError(r) ==
    IF isTokenSuccess(r) THEN "resolve" ELSE "schedule"
Classify(r) ==
    IF isTokenSuccess(r) THEN "resolve"
    ELSE IF r.error = "authorization_pending" THEN "schedule"
    ELSE "reject"

\* poll() returns right after rejecting with the timeout error (line 638), so a
\* tick sends its request only when the deadline has not passed.
TickSendsRequest_NoReturn(timedOut) == TRUE
TickSendsRequest(timedOut) == ~timedOut

\* Only the first poll() has a rejection handler: poll().catch(reject).  The
\* later ones are started by setTimeout(poll, ...), which drops their promise.
TickFailureCaught(nRequests) == nRequests = 1

(***************************************************************************)
(* The interactive prompt                                                  *)
(***************************************************************************)
\* rl.once('line', ...): the line handler closes readline and resolves the wait.
LineHandler(ps) == IF ps = "waiting" THEN "resumed" ELSE ps

\* signal.addEventListener('abort', ...): closes readline and resolves the wait.
WaitAfterAbort_NoListener(ps) == ps
WaitAfterAbort(ps) == IF ps = "waiting" THEN "resumed" ELSE ps

\* After the wait: return if the signal is aborted, else open the browser.
OpenAfterWait_Always(ab) == TRUE
OpenAfterWait_Never(ab) == FALSE
OpenAfterWait(ab) == ~ab

PromptEnd(ps, ab) ==
    IF ps = "resumed" THEN (IF OpenAfterWait(ab) THEN "opened" ELSE "cancelled") ELSE ps
OpensBy(ps, ab) == IF ps = "resumed" /\ OpenAfterWait(ab) THEN 1 ELSE 0

(***************************************************************************)
(* authorize                                                               *)
(***************************************************************************)
\* catch (cause): an AuthError is rethrown, anything else is wrapped in an Error.
AuthorizeThrows(e) == IF e \in AuthErrorCodes THEN e ELSE PlainError

\* What forceAuthorize and authorize throw before the device authorization
\* request: the code of the error, or "none".
AuthorizePrecheck_NoConfigCheck(cfg, tty) ==
    IF ~tty THEN "NoInteractiveTerminal" ELSE "none"
AuthorizePrecheck(cfg, tty) ==
    IF isGleanTokenConfig(cfg) THEN "GleanTokenConfigUsedForOAuth"
    ELSE IF ~tty THEN "NoInteractiveTerminal"
    ELSE "none"

GrantAnswers == {"ok", "notOk", "badShape", "throw"}
GrantLatencies == {0, 100000}
GrantError(g) ==
    CASE g = "notOk" -> "UnexpectedAuthGrantError"
      [] g = "badShape" -> "UnexpectedAuthGrantResponse"
      [] OTHER -> RawError

(***************************************************************************)
(* ensureAuthTokenPresence and forceRefreshTokens: the decisions           *)
(***************************************************************************)
ReturnsEarly_Never(cfg) == FALSE
ReturnsEarly(cfg) == isGleanTokenConfig(cfg)

NeedsAuthorize_AlsoWhenExpired(tokens, t) == ~tokens.present \/ isExpired(tokens, t)
NeedsAuthorize(tokens, t) == ~tokens.present

NeedsRefresh_Always(tokens, t) == tokens.present
NeedsRefresh(tokens, t) == tokens.present /\ isExpired(tokens, t)

\* forceRefreshTokens up to the request: "none" when the request is sent.
RefreshPrecheck_NoRefreshTokenCheck(cfg, tokens) ==
    IF isGleanTokenConfig(cfg) THEN "GleanTokenConfigUsedForOAuthRefresh"
    ELSE IF ~tokens.present THEN "RefreshTokenNotFound"
    ELSE "none"
RefreshPrecheck(cfg, tokens) ==
    IF isGleanTokenConfig(cfg) THEN "GleanTokenConfigUsedForOAuthRefresh"
    ELSE IF ~tokens.present THEN "RefreshTokenNotFound"
    ELSE IF tokens.refreshToken = Undefined THEN "RefreshTokenMissing"
    ELSE "none"

\* forceAuthorize saves the tokens authorize returned unless they are null.
SavesAfterAuthorize_Never(tokens) == FALSE
SavesAfterAuthorize(tokens) == tokens.present

\* The refresh_token parameter of the refresh request: the refresh token of the
\* tokens forceRefreshTokens loaded.
RefreshTokenParam_AccessToken(tokens) == tokens.accessToken
RefreshTokenParam(tokens) == tokens.refreshToken

\* What fetchTokenViaRefresh throws for the answer to its request: the code of
\* the error, or "none" when it returns tokens.
RefreshFailure_AcceptsErrorBody(r) ==
    IF r.throws THEN "UnexpectedAccessTokenResponse" ELSE "none"
RefreshFailure(r) ==
    IF r.throws THEN "UnexpectedAccessTokenResponse"
    ELSE IF isTokenSuccess(r) THEN "none"
    ELSE "FetchTokenServerError"

\* The tokens forceRefreshTokens saves: built from the refresh response alone.
RefreshedTokens_KeepOldRefreshToken(old, r, t) ==
    [buildFromTokenResponse(r, t) EXCEPT
        !.refreshToken = IF r.refresh_token = Undefined THEN old.refreshToken
                         ELSE r.refresh_token]
RefreshedTokens(old, r, t) == buildFromTokenResponse(r, t)

(***************************************************************************)
(* Initial state: the call has not started                                 *)
(***************************************************************************)
Entries ==
    {"ensureAuthTokenPresence", "forceAuthorize", "forceRefreshTokens",
     "attemptUpgradeConfigToOAuth", "discoverOAuthConfig"}

\* Where a call of the entry point first waits: forceAuthorize and
\* forceRefreshTokens begin with `await getConfig({ discoverOAuth: true })`.
StartPc(e) ==
    CASE e = "ensureAuthTokenPresence" -> "start"
      [] e = "forceAuthorize" -> "fa_getConfig"
      [] e = "forceRefreshTokens" -> "fr_getConfig"
      [] e \in {"attemptUpgradeConfigToOAuth", "discoverOAuthConfig"} -> "disc_start"

(***************************************************************************)
(* Two overlapping calls                                                   *)
(***************************************************************************)
\* Two calls of ensureAuthTokenPresence or forceRefreshTokens run on the same
\* event loop and share the token store.  Each does what the single call
\* does; the steps of the two interleave at every await.
Callers == {1, 2}
CallerEntries == {"ensureAuthTokenPresence", "forceRefreshTokens"}
IdleCaller(e) ==
    [entry |-> e, pc |-> StartPc(e), checked |-> NullTokens, loaded |-> NullTokens,
     sent |-> "none", answer |-> FailedAnswer, result |-> "running"]
\* The token endpoint issues different tokens for different requests.
\* No second call is running.
NoCaller ==
    [entry |-> "none", pc |-> "done", checked |-> NullTokens, loaded |-> NullTokens,
     sent |-> "none", answer |-> FailedAnswer, result |-> "none"]
RefreshAnswersFor(c) ==
    (IF c = 1 THEN SuccessAnswers("at_ref1", "rt_ref1")
              ELSE SuccessAnswers("at_ref2", "rt_ref2"))
      \cup {Answer(FALSE, Undefined, Undefined, 0, "invalid_grant"), FailedAnswer}

Init ==
    /\ entry \in Entries
    /\ config \in Configs
    /\ isTTY \in BOOLEAN
    /\ store \in InitialStores
    /\ store0 = store
    /\ retTokens = NullTokens
    /\ refreshTokenSent = "none"
    /\ refreshAnswer = FailedAnswer
    /\ now = 0
    /\ proc = "running"
    /\ pc = StartPc(entry)
    /\ result = "running"
    /\ authz = "notcalled"
    /\ abortCreated = FALSE
    /\ aborted = FALSE
    /\ promptState = "none"
    /\ opens = 0
    /\ enterProcessed = FALSE
    /\ lateEnter = FALSE
    /\ raceOrder = "none"
    /\ interval = 0
    /\ pollState = "none"
    /\ pollValue = FailedAnswer
    /\ pollError = "none"
    /\ timers = 0
    /\ inflight = 0
    /\ timerAt = 0
    /\ startTime = 0
    /\ settledAt = 0
    /\ pollReqTimes = << >>
    /\ pendingCount = 0
    /\ lastResponse = FailedAnswer
    /\ dropped = FALSE
    /\ reqs = [discovery |-> 0, deviceGrant |-> 0, refresh |-> 0]
    /\ storeReads = 0
    /\ storeWrites = 0
    /\ events = << >>
    /\ firstLoad = "notloaded"
    /\ netFailure = "none"
    /\ discReqs = << >>
    /\ found = NothingFound
    /\ prAnswer = NoPRAnswer
    /\ oidcAnswer = NoASAnswer
    /\ oasAnswer = NoASAnswer
    /\ oauthCfg = NoConfig
    /\ metadata = NoConfig
    /\ metadataWrites = 0
    /\ round = 1
    /\ firstCfg = NoConfig
    /\ firstMetadata = NoConfig
    /\ firstReqs = 0
    /\ calls = [c \in Callers |-> NoCaller]
    /\ arrivals = << >>
    /\ saves = << >>

(***************************************************************************)
(* Pieces of actions shared by several tasks                               *)
(***************************************************************************)
\* ensureAuthTokenPresence from the expiration check on (lines 75-81), up to
\* the first await inside forceRefreshTokens.
EnsureCheck(tokens, t, ev) ==
    /\ events' = Append(ev, IF tokens.present /\ isExpired(tokens, t)
                               THEN "checkExpired" ELSE "checkFresh")
    /\ IF NeedsRefresh(tokens, t)
         THEN pc' = "fr_getConfig" /\ result' = "running"
         ELSE pc' = "done" /\ result' = (IF tokens.present THEN "true" ELSE "false")

\* forceAuthorize returns tokens (line 190): to ensureAuthTokenPresence, which
\* goes on with the expiration check, or to the caller.
AfterForceAuthorize(tokens, t) ==
    IF entry = "ensureAuthTokenPresence"
      THEN EnsureCheck(tokens, t, events)
      ELSE pc' = "done" /\ result' = "tokens" /\ UNCHANGED events

\* The poll promise settles at time t and authorize resumes from
\* `await tokenPoller`: abortController.abort() runs the abort listener, the
\* prompt's wait resolves and the prompt runs to its end.
Settle(t) ==
    /\ settledAt' = t
    /\ aborted' = TRUE
    /\ promptState' = PromptEnd(WaitAfterAbort(promptState), TRUE)
    /\ opens' = opens + OpensBy(WaitAfterAbort(promptState), TRUE)
    /\ raceOrder' = IF raceOrder = "none" THEN "settleFirst" ELSE raceOrder

\* authorize throws e out of its catch block; forceAuthorize and
\* ensureAuthTokenPresence let it through.
AuthorizeFails(e) ==
    /\ authz' = "threw"
    /\ pc' = "done"
    /\ result' = AuthorizeThrows(e)

(***************************************************************************)
(* Tasks                                                                   *)
(***************************************************************************)
\* ensureAuthTokenPresence is called: lines 62-81 up to the first await on I/O.
EnsureAuthTokenPresence ==
    /\ proc = "running" /\ pc = "start"
    /\ IF ReturnsEarly(config)
         THEN /\ pc' = "done" /\ result' = "true"
              /\ UNCHANGED << storeReads, events, firstLoad >>
         ELSE /\ storeReads' = storeReads + 1
              /\ firstLoad' = IF store.present THEN "tokens" ELSE "null"
              /\ IF NeedsAuthorize(store, now)
                   THEN pc' = "fa_getConfig" /\ result' = "running" /\ events' = << "load" >>
                   ELSE EnsureCheck(store, now, << "load" >>)
    /\ UNCHANGED << envVars, againVars, twoVars, discVars, store, retTokens, refreshVars,
                    now, proc, authVars, promptVars, pollVars, reqs,
                    storeWrites, netFailure >>

\* forceAuthorize: getConfig({discoverOAuth: true}) settles; then lines 179-185
\* and authorize up to `await fetchDeviceAuthorization(config)`.
ForceAuthorize ==
    /\ proc = "running" /\ pc = "fa_getConfig"
    /\ \E d \in GetConfigOutcomes(config) :
         LET e == IF d # "ok" THEN d ELSE AuthorizePrecheck(config, isTTY)
         IN /\ reqs' = [reqs EXCEPT
                          !.discovery = @ + (IF isBasicConfig(config) THEN 1 ELSE 0),
                          !.deviceGrant = @ + (IF e = "none" THEN 1 ELSE 0)]
            /\ netFailure' = IF d \in NetworkOrParseErrors THEN "discovery" ELSE netFailure
            /\ IF e = "none"
                 THEN /\ pc' = "deviceGrant_wait" /\ result' = "running"
                      /\ authz' = "running" /\ abortCreated' = TRUE
                 ELSE /\ pc' = "done" /\ result' = e
                      /\ authz' = (IF e = "NoInteractiveTerminal" THEN "refused" ELSE authz)
                      /\ UNCHANGED abortCreated
    /\ UNCHANGED << envVars, againVars, twoVars, discVars, store, retTokens, refreshVars,
                    now, proc, aborted, promptVars, pollVars, storeReads,
                    storeWrites, events, firstLoad >>

\* The device authorization endpoint answers.  On success pollForToken starts
\* (its first poll() sends the first request at once) and the prompt is shown
\* and waits for Enter; authorize awaits the poll promise.
DeviceGrantResponse ==
    /\ proc = "running" /\ pc = "deviceGrant_wait"
    /\ \E lat \in GrantLatencies, g \in GrantAnswers, iv \in Intervals :
         LET t == now + lat
         IN /\ now' = t
            /\ IF g = "ok"
                 THEN /\ interval' = iv
                      /\ startTime' = t
                      /\ pollState' = "pending"
                      /\ inflight' = 1
                      /\ pollReqTimes' = << t >>
                      /\ promptState' = "waiting"
                      /\ pc' = "poll_wait"
                      /\ UNCHANGED << result, authz, aborted, netFailure >>
                 ELSE /\ aborted' = TRUE
                      /\ AuthorizeFails(GrantError(g))
                      /\ netFailure' = IF g = "throw" THEN "deviceGrant" ELSE netFailure
                      /\ UNCHANGED << interval, startTime, pollState, inflight,
                                      pollReqTimes, promptState >>
    /\ UNCHANGED << envVars, againVars, twoVars, discVars, store, retTokens, refreshVars,
                    proc, abortCreated, opens, enterProcessed, lateEnter,
                    raceOrder, pollValue, pollError, timers, timerAt, settledAt,
                    pendingCount, lastResponse, dropped, reqs, storeReads, storeWrites,
                    events, firstLoad >>

\* The token endpoint answers the request of a poll() in flight (lines 664-684).
\* resolve and reject do nothing to a promise that is settled already.
\* The answer is one of `answers`.
PollResponseFrom(answers) ==
    /\ proc = "running" /\ inflight > 0
    /\ \E lat \in Latencies, r \in answers :
         LET t == now + lat
             c == IF r.throws THEN "throw" ELSE Classify(r)
             caught == TickFailureCaught(Len(pollReqTimes))
             live == pollState = "pending"
             tokens == buildFromTokenResponse(r, t)
         IN /\ now' = t
            /\ lastResponse' = r
            /\ inflight' = inflight - 1
            /\ CASE c = "resolve" /\ live ->
                      /\ pollState' = "resolved" /\ pollValue' = r
                      /\ Settle(t)
                      /\ authz' = "returned"
                      /\ retTokens' = tokens
                      /\ store' = (IF SavesAfterAuthorize(tokens) THEN tokens ELSE store)
                      /\ storeWrites' = storeWrites + (IF SavesAfterAuthorize(tokens) THEN 1 ELSE 0)
                      /\ AfterForceAuthorize(tokens, t)
                      /\ UNCHANGED << pollError, timers, timerAt, pendingCount, dropped,
                                      proc, netFailure >>
                 [] c = "schedule" ->
                      /\ timers' = timers + 1
                      /\ timerAt' = t + TickDelayMs(interval)
                      /\ pendingCount' = pendingCount + 1
                      /\ UNCHANGED << pollState, pollValue, pollError, settledAt, aborted,
                                      promptState, opens, raceOrder, authz, store,
                                      retTokens, storeWrites, events, pc, result, dropped,
                                      proc, netFailure >>
                 [] c = "reject" /\ live ->
                      /\ pollState' = "rejected" /\ pollError' = "UnexpectedAuthGrantError"
                      /\ Settle(t)
                      /\ AuthorizeFails("UnexpectedAuthGrantError")
                      /\ UNCHANGED << pollValue, timers, timerAt, pendingCount, dropped,
                                      proc, netFailure, store, retTokens, storeWrites,
                                      events >>
                 [] c = "throw" /\ caught /\ live ->
                      /\ pollState' = "rejected" /\ pollError' = RawError
                      /\ Settle(t)
                      /\ AuthorizeFails(RawError)
                      /\ netFailure' = "pollTick"
                      /\ UNCHANGED << pollValue, timers, timerAt, pendingCount, dropped,
                                      proc, store, retTokens, storeWrites, events >>
                 [] c = "throw" /\ ~caught ->
                      \* An unhandled rejection: the process dies of it, or, with an
                      \* 'unhandledRejection' handler installed, lives on.
                      /\ dropped' = TRUE
                      /\ netFailure' = "pollTick"
                      /\ proc' \in {"running", "crashed"}
                      /\ UNCHANGED << pollState, pollValue, pollError, timers, timerAt,
                                      pendingCount, settledAt, aborted, promptState, opens,
                                      raceOrder, authz, store, retTokens, storeWrites,
                                      events, pc, result >>
                 [] OTHER ->
                      \* resolve or reject on the settled promise
                      UNCHANGED << pollState, pollValue, pollError, timers, timerAt,
                                   pendingCount, settledAt, aborted, promptState, opens,
                                   raceOrder, authz, store, retTokens, storeWrites, events,
                                   pc, result, dropped, proc, netFailure >>
    /\ UNCHANGED << envVars, againVars, twoVars, discVars, refreshVars, abortCreated, enterProcessed, lateEnter,
                    interval, startTime, pollReqTimes, reqs, storeReads, firstLoad >>

\* The token endpoint answers whatever a token endpoint may answer.
PollResponse == PollResponseFrom(PollAnswers)

\* A token endpoint that answers 'authorization_pending' to every request.
AlwaysPendingAnswers == { r \in ErrorAnswers : r.error = "authorization_pending" }
PollResponsePending == PollResponseFrom(AlwaysPendingAnswers)

\* A timer set by setTimeout(poll, ...) fires: poll() checks the deadline
\* (lines 630-639) and otherwise sends the next request.
TimerFires ==
    /\ proc = "running" /\ timers > 0
    /\ \E late \in Lateness :
         LET t == timerAt + late
             live == pollState = "pending"
         IN /\ now' = t
            /\ timers' = timers - 1
            /\ IF IsTimedOut(t, startTime) /\ live
                 THEN /\ pollState' = "rejected"
                      /\ pollError' = "OAuthPollingTimeout"
                      /\ Settle(t)
                      /\ AuthorizeFails("OAuthPollingTimeout")
                 ELSE UNCHANGED << pollState, pollError, settledAt, aborted, promptState,
                                   opens, raceOrder, authz, pc, result >>
            /\ IF TickSendsRequest(IsTimedOut(t, startTime))
                 THEN /\ Len(pollReqTimes) < MaxRequests
                      /\ inflight' = inflight + 1
                      /\ pollReqTimes' = Append(pollReqTimes, t)
                 ELSE UNCHANGED << pollReqTimes, inflight >>
    /\ UNCHANGED << envVars, againVars, twoVars, discVars, store, retTokens, refreshVars,
                    proc, abortCreated, enterProcessed, lateEnter, interval,
                    pollValue, timerAt, startTime, pendingCount, lastResponse, dropped,
                    reqs, storeReads, storeWrites, events, firstLoad, netFailure >>

\* The user presses Enter while the prompt waits: the 'line' handler runs, the
\* wait resolves and the prompt runs to its end (lines 610-618).
UserEnter ==
    /\ proc = "running" /\ promptState = "waiting"
    /\ enterProcessed' = TRUE
    /\ raceOrder' = IF raceOrder = "none" THEN "enterFirst" ELSE raceOrder
    /\ promptState' = PromptEnd(LineHandler(promptState), aborted)
    /\ opens' = opens + OpensBy(LineHandler(promptState), aborted)
    /\ UNCHANGED << envVars, againVars, twoVars, discVars, store, retTokens, refreshVars,
                    now, proc, pc, result, authVars, lateEnter, pollVars,
                    reqs, storeReads, storeWrites, events, firstLoad, netFailure >>

\* The user presses Enter after readline was closed: nobody listens.
UserEnterAfterClose ==
    /\ proc = "running" /\ promptState \in {"opened", "cancelled"} /\ ~lateEnter
    /\ lateEnter' = TRUE
    /\ UNCHANGED << envVars, againVars, twoVars, discVars, store, retTokens, refreshVars,
                    now, proc, pc, result, authVars, promptState, opens,
                    enterProcessed, raceOrder, pollVars, reqs, storeReads, storeWrites,
                    events, firstLoad, netFailure >>

\* forceRefreshTokens: getConfig({discoverOAuth: true}) settles; then lines
\* 443-457 and fetchTokenViaRefresh up to `await fetch(url, options)`.
ForceRefreshTokens ==
    /\ proc = "running" /\ pc = "fr_getConfig"
    /\ \E d \in GetConfigOutcomes(config) :
         LET e == IF d # "ok" THEN d ELSE RefreshPrecheck(config, store)
             loaded == d = "ok" /\ ~isGleanTokenConfig(config)
         IN /\ reqs' = [reqs EXCEPT
                          !.discovery = @ + (IF isBasicConfig(config) THEN 1 ELSE 0),
                          !.refresh = @ + (IF e = "none" THEN 1 ELSE 0)]
            /\ netFailure' = IF d \in NetworkOrParseErrors THEN "discovery" ELSE netFailure
            /\ storeReads' = storeReads + (IF loaded THEN 1 ELSE 0)
            /\ events' = events \o (IF loaded THEN << "refreshLoad" >> ELSE << >>)
                                \o (IF e = "none" THEN << "refresh" >> ELSE << >>)
            /\ refreshTokenSent' = IF e = "none" THEN RefreshTokenParam(store)
                                                  ELSE refreshTokenSent
            /\ IF e = "none"
                 THEN pc' = "refresh_wait" /\ result' = "running"
                 ELSE pc' = "done" /\ result' = e
    /\ UNCHANGED << envVars, againVars, twoVars, discVars, store, retTokens, refreshAnswer, now, proc, authVars,
                    promptVars, pollVars, storeWrites, firstLoad >>

\* The token endpoint answers the refresh request (lines 499-522); on success
\* forceRefreshTokens saves the new tokens and ensureAuthTokenPresence reloads.
RefreshResponse ==
    /\ proc = "running" /\ pc = "refresh_wait"
    /\ \E r \in RefreshAnswers :
         /\ pc' = "done"
         /\ refreshAnswer' = r
         /\ IF RefreshFailure(r) = "UnexpectedAccessTokenResponse"
              THEN /\ result' = "UnexpectedAccessTokenResponse"
                   /\ netFailure' = "refresh"
                   /\ UNCHANGED << store, storeWrites, storeReads, events >>
              ELSE IF RefreshFailure(r) = "none"
              THEN /\ store' = RefreshedTokens(store, r, now)
                   /\ storeWrites' = storeWrites + 1
                   /\ IF entry = "ensureAuthTokenPresence"
                        THEN /\ storeReads' = storeReads + 1
                             /\ events' = Append(events, "reload")
                             /\ result' = "true"
                        ELSE /\ result' = "void"
                             /\ UNCHANGED << storeReads, events >>
                   /\ UNCHANGED netFailure
              ELSE /\ result' = RefreshFailure(r)
                   /\ UNCHANGED << store, storeWrites, storeReads, events, netFailure >>
    /\ UNCHANGED << envVars, againVars, twoVars, discVars, retTokens, refreshTokenSent, now, proc, authVars, promptVars,
                    pollVars, reqs, firstLoad >>

(***************************************************************************)
(* Actions of discoverOAuthConfig and attemptUpgradeConfigToOAuth          *)
(***************************************************************************)
\* discoverOAuthConfig throws the error with this code.
DiscoveryFails(code) ==
    /\ pc' = "done" /\ result' = code
    /\ UNCHANGED << oauthCfg, metadata, metadataWrites >>

\* discoverOAuthConfig returns cfg; attemptUpgradeConfigToOAuth then saves it
\* in the metadata cache and returns it (lines 200-207), in both cases
\* without a clientSecret key whose value is undefined.
DiscoveryReturns(cfg) ==
    /\ pc' = "done" /\ result' = "config"
    /\ IF entry = "attemptUpgradeConfigToOAuth"
         THEN /\ oauthCfg' = DropUndefinedSecret(cfg)
              /\ metadata' = DropUndefinedSecret(cfg)
              /\ metadataWrites' = metadataWrites + 1
         ELSE /\ oauthCfg' = cfg
              /\ UNCHANGED << metadata, metadataWrites >>

\* fetchAuthorizationServerMetadata from `await response.json()` on, and the
\* rest of discoverOAuthConfig.
AuthServerMetadataDone(a, f) ==
    IF AuthServerMetadataFailure(a) # "none"
      THEN DiscoveryFails(AuthServerMetadataFailure(a))
      ELSE DiscoveryReturns(AssembleOAuthConfig(f, a))

\* The call starts: the checks on the kind of config and, for a basic config,
\* the first request.
DiscoverOAuthConfig ==
    /\ proc = "running" /\ pc = "disc_start"
    /\ IF isGleanTokenConfig(config)
         THEN /\ IF entry = "attemptUpgradeConfigToOAuth"
                   THEN pc' = "done" /\ result' = "config" /\ oauthCfg' = config
                   ELSE pc' = "done" /\ result' = "InvalidConfig" /\ UNCHANGED oauthCfg
              /\ UNCHANGED << metadata, metadataWrites, discReqs, found >>
         ELSE IF isOAuthConfig(config)
         THEN /\ DiscoveryReturns(config)
              /\ UNCHANGED << discReqs, found >>
         ELSE IF NeedsProtectedResource(config)
         THEN /\ discReqs' = Append(discReqs, "oauth-protected-resource")
              /\ pc' = "pr_wait"
              /\ UNCHANGED << result, oauthCfg, metadata, metadataWrites, found >>
         ELSE /\ found' = FromConfig(config)
              /\ discReqs' = Append(discReqs, "openid-configuration")
              /\ pc' = "oidc_wait"
              /\ UNCHANGED << result, oauthCfg, metadata, metadataWrites >>
    \* discoverOAuthConfig returns the very object it was given when that is an
    \* OAuth config (240), so the delete of lines 202-204 acts on the caller's
    \* config.
    /\ config' = IF isOAuthConfig(config) /\ entry = "attemptUpgradeConfigToOAuth"
                   THEN DropUndefinedSecret(config) ELSE config
    /\ UNCHANGED << entry, isTTY, store0, againVars, twoVars, store, retTokens, refreshVars, now,
                    proc, authVars, promptVars, pollVars, reqs, storeReads, storeWrites, events,
                    firstLoad, netFailure, prAnswer, oidcAnswer, oasAnswer >>

\* The protected resource metadata URL answers (lines 374-435); on success
\* discoverOAuthConfig takes issuer, clientId and clientSecret from the answer
\* and requests the OpenID configuration.
ProtectedResourceResponse ==
    /\ proc = "running" /\ pc = "pr_wait"
    /\ \E a \in PRAnswers :
         /\ prAnswer' = a
         /\ IF ProtectedResourceFailure(a) # "none"
              THEN /\ DiscoveryFails(ProtectedResourceFailure(a))
                   /\ UNCHANGED << found, discReqs >>
              ELSE /\ found' = ProtectedResourceMetadata(a)
                   /\ discReqs' = Append(discReqs, "openid-configuration")
                   /\ pc' = "oidc_wait"
                   /\ UNCHANGED << result, oauthCfg, metadata, metadataWrites >>
    /\ UNCHANGED << envVars, againVars, twoVars, store, retTokens, refreshVars, now, proc, authVars,
                    promptVars, pollVars, reqs, storeReads, storeWrites, events, firstLoad,
                    netFailure, oidcAnswer, oasAnswer >>

\* {issuer}/.well-known/openid-configuration answers (lines 279-293, 316-326).
OpenIdConfigurationResponse ==
    /\ proc = "running" /\ pc = "oidc_wait"
    /\ \E a \in ASAnswers :
         /\ oidcAnswer' = a
         /\ IF FallsBack(a)
              THEN /\ discReqs' = Append(discReqs, "oauth-authorization-server")
                   /\ pc' = "oas_wait"
                   /\ UNCHANGED << result, oauthCfg, metadata, metadataWrites >>
              ELSE /\ AuthServerMetadataDone(a, found)
                   /\ UNCHANGED discReqs
    /\ UNCHANGED << envVars, againVars, twoVars, store, retTokens, refreshVars, now, proc, authVars,
                    promptVars, pollVars, reqs, storeReads, storeWrites, events, firstLoad,
                    netFailure, found, prAnswer, oasAnswer >>

\* {issuer}/.well-known/oauth-authorization-server answers (lines 295-311);
\* what fetchOauthAuthorizationServerConfig throws is not caught.
OAuthAuthorizationServerResponse ==
    /\ proc = "running" /\ pc = "oas_wait"
    /\ \E a \in ASAnswers :
         /\ oasAnswer' = a
         /\ AuthServerMetadataDone(a, found)
    /\ UNCHANGED << envVars, againVars, twoVars, store, retTokens, refreshVars, now, proc, authVars,
                    promptVars, pollVars, reqs, storeReads, storeWrites, events, firstLoad,
                    netFailure, discReqs, found, prAnswer, oidcAnswer >>

\* The caller applies attemptUpgradeConfigToOAuth to the config the first
\* application returned.
ApplyAgain ==
    /\ proc = "running" /\ entry = "attemptUpgradeConfigToOAuth"
    /\ pc = "done" /\ result = "config" /\ round = 1
    /\ round' = 2
    /\ firstCfg' = oauthCfg
    /\ firstMetadata' = metadata
    /\ firstReqs' = Len(discReqs)
    /\ config' = oauthCfg
    /\ oauthCfg' = NoConfig
    /\ pc' = "disc_start" /\ result' = "running"
    /\ UNCHANGED << twoVars, entry, isTTY, store0, store, retTokens, refreshVars, now, proc, authVars,
                    promptVars, pollVars, reqs, storeReads, storeWrites, events, firstLoad,
                    netFailure, discReqs, found, prAnswer, oidcAnswer, oasAnswer, metadata,
                    metadataWrites >>

(***************************************************************************)
(* Actions of two overlapping calls                                        *)
(***************************************************************************)
\* The single call is not running; only `calls` and the token store move.
OnlyCallersMove ==
    UNCHANGED << envVars, againVars, discVars, store0, retTokens, refreshVars, now, proc, pc,
                 result, authVars, promptVars, pollVars, reqs, storeReads, storeWrites, events,
                 firstLoad, netFailure >>

\* ensureAuthTokenPresence of caller c: getConfig settles, lines 66-76 up to
\* the first await inside forceRefreshTokens.  The device flow of a caller
\* that finds no tokens is not followed here.
CallerStart(c) ==
    /\ calls[c].pc = "start"
    /\ calls' = [calls EXCEPT ![c] =
                   IF ReturnsEarly(config) THEN [@ EXCEPT !.pc = "done", !.result = "true"]
                   ELSE IF NeedsAuthorize(store, now)
                     THEN [@ EXCEPT !.checked = store, !.pc = "authorize"]
                   ELSE IF NeedsRefresh(store, now)
                     THEN [@ EXCEPT !.checked = store, !.pc = "fr_getConfig"]
                   ELSE [@ EXCEPT !.checked = store, !.pc = "done", !.result = "true"]]
    /\ UNCHANGED << store, arrivals, saves >>
    /\ OnlyCallersMove

\* forceRefreshTokens of caller c: getConfig settles, lines 443-457 and
\* fetchTokenViaRefresh up to `await fetch(url, options)`.
CallerForceRefresh(c) ==
    /\ calls[c].pc = "fr_getConfig"
    /\ \E d \in GetConfigOutcomes(config) :
         LET e == IF d # "ok" THEN d ELSE RefreshPrecheck(config, store)
         IN calls' = [calls EXCEPT ![c] =
                        IF e = "none"
                          THEN [@ EXCEPT !.loaded = store, !.sent = RefreshTokenParam(store),
                                         !.pc = "refresh_wait"]
                          ELSE [@ EXCEPT !.pc = "done", !.result = e]]
    /\ UNCHANGED << store, arrivals, saves >>
    /\ OnlyCallersMove

\* The response to the refresh request of caller c arrives (`await fetch`
\* settles, lines 499-502).  A rejected fetch ends the call here (503-508);
\* otherwise the body is read next, and a body that is no JSON fails there.
CallerResponse(c) ==
    /\ calls[c].pc = "refresh_wait"
    /\ \E r \in RefreshAnswersFor(c), fetchRejects \in BOOLEAN :
         /\ fetchRejects => r.throws
         /\ calls' = [calls EXCEPT ![c] =
                        IF fetchRejects
                          THEN [@ EXCEPT !.answer = r, !.pc = "done",
                                         !.result = RefreshFailure(r)]
                          ELSE [@ EXCEPT !.answer = r, !.pc = "body_wait"]]
    /\ arrivals' = Append(arrivals, c)
    /\ UNCHANGED << store, saves >>
    /\ OnlyCallersMove

\* The body of the response of caller c is parsed (`await responseRaw.json()`
\* settles); lines 511-522, then saveTokens (458) and, in
\* ensureAuthTokenPresence, the reload (77-81).
CallerBody(c) ==
    /\ calls[c].pc = "body_wait"
    /\ LET r == calls[c].answer
       IN IF RefreshFailure(r) = "none"
            THEN /\ store' = RefreshedTokens(calls[c].loaded, r, now)
                 /\ saves' = Append(saves, c)
                 /\ calls' = [calls EXCEPT ![c] =
                                [@ EXCEPT !.pc = "done",
                                          !.result = IF calls[c].entry = "ensureAuthTokenPresence"
                                                       THEN "true" ELSE "void"]]
            ELSE /\ calls' = [calls EXCEPT ![c] =
                                [@ EXCEPT !.pc = "done", !.result = RefreshFailure(r)]]
                 /\ UNCHANGED << store, saves >>
    /\ UNCHANGED arrivals
    /\ OnlyCallersMove

Next ==
    \/ EnsureAuthTokenPresence
    \/ ForceAuthorize
    \/ DeviceGrantResponse
    \/ PollResponse
    \/ TimerFires
    \/ UserEnter
    \/ UserEnterAfterClose
    \/ ForceRefreshTokens
    \/ RefreshResponse
    \/ DiscoverOAuthConfig
    \/ ProtectedResourceResponse
    \/ OpenIdConfigurationResponse
    \/ OAuthAuthorizationServerResponse
    \/ ApplyAgain

Spec == Init /\ [][Next]_vars

\* The same program with a token endpoint that always answers
\* 'authorization_pending'.  Fairness: a timer that was set fires, and a request
\* that was sent is answered (fetch settles); nothing is assumed of the user.
NextAlwaysPending ==
    \/ EnsureAuthTokenPresence
    \/ ForceAuthorize
    \/ DeviceGrantResponse
    \/ PollResponsePending
    \/ TimerFires
    \/ UserEnter
    \/ UserEnterAfterClose
    \/ ForceRefreshTokens
    \/ RefreshResponse
    \/ DiscoverOAuthConfig
    \/ ProtectedResourceResponse
    \/ OpenIdConfigurationResponse
    \/ OAuthAuthorizationServerResponse
    \/ ApplyAgain

\* Two overlapping calls sharing the token store; nothing else runs.
InitTwoCallers ==
    /\ entry = "forceRefreshTokens"
    /\ config = OAuthConfig
    /\ isTTY = FALSE
    /\ store \in InitialStores \ {NullTokens}
    /\ store0 = store
    /\ retTokens = NullTokens
    /\ refreshTokenSent = "none"
    /\ refreshAnswer = FailedAnswer
    /\ now = 0
    /\ proc = "running"
    /\ pc = "concurrent"
    /\ result = "running"
    /\ authz = "notcalled"
    /\ abortCreated = FALSE
    /\ aborted = FALSE
    /\ promptState = "none"
    /\ opens = 0
    /\ enterProcessed = FALSE
    /\ lateEnter = FALSE
    /\ raceOrder = "none"
    /\ interval = 0
    /\ pollState = "none"
    /\ pollValue = FailedAnswer
    /\ pollError = "none"
    /\ timers = 0
    /\ inflight = 0
    /\ timerAt = 0
    /\ startTime = 0
    /\ settledAt = 0
    /\ pollReqTimes = << >>
    /\ pendingCount = 0
    /\ lastResponse = FailedAnswer
    /\ dropped = FALSE
    /\ reqs = [discovery |-> 0, deviceGrant |-> 0, refresh |-> 0]
    /\ storeReads = 0
    /\ storeWrites = 0
    /\ events = << >>
    /\ firstLoad = "notloaded"
    /\ netFailure = "none"
    /\ discReqs = << >>
    /\ found = NothingFound
    /\ prAnswer = NoPRAnswer
    /\ oidcAnswer = NoASAnswer
    /\ oasAnswer = NoASAnswer
    /\ oauthCfg = NoConfig
    /\ metadata = NoConfig
    /\ metadataWrites = 0
    /\ round = 1
    /\ firstCfg = NoConfig
    /\ firstMetadata = NoConfig
    /\ firstReqs = 0
    /\ calls \in [Callers -> { IdleCaller(e) : e \in CallerEntries }]
    /\ arrivals = << >>
    /\ saves = << >>

NextTwoCallers ==
    \/ \E c \in Callers : CallerStart(c)
    \/ \E c \in Callers : CallerForceRefresh(c)
    \/ \E c \in Callers : CallerResponse(c)
    \/ \E c \in Callers : CallerBody(c)

SpecTwoCallers == InitTwoCallers /\ [][NextTwoCallers]_vars

SpecAlwaysPending ==
    /\ Init /\ [][NextAlwaysPending]_vars
    /\ WF_vars(TimerFires)
    /\ WF_vars(PollResponsePending)

(***************************************************************************)
(* Properties                                                              *)
(***************************************************************************)
Settled == pollState \in {"resolved", "rejected"}
ElapsedAtSettle == settledAt - startTime
\* A step in which the answer to a poll request is processed / a timer fires,
\* while the promise of pollForToken is pending.
AnswerStep == pollState = "pending" /\ inflight' < inflight
TickStartStep == pollState = "pending" /\ timers' < timers

\* C1: every answer of the token endpoint to a polling tick is classified:
\* token fields present -> the promise resolves with exactly that answer;
\* 'authorization_pending' -> the promise stays pending and exactly one next
\* tick is scheduled; any other error -> the promise is rejected with the
\* polling error at once, the caller gets that error, and no request is sent
\* once the promise has settled.
C1_TickClassified ==
    /\ [][ (AnswerStep /\ ~lastResponse'.throws) =>
             /\ (lastResponse'.access_token # Undefined) =>
                   (pollState' = "resolved" /\ pollValue' = lastResponse'
                      /\ timers' = 0 /\ inflight' = 0)
             /\ (lastResponse'.access_token = Undefined
                   /\ lastResponse'.error = "authorization_pending") =>
                   (pollState' = "pending" /\ timers' = timers + 1 /\ timers' = 1
                      /\ inflight' = 0 /\ pc' = "poll_wait")
             /\ (lastResponse'.access_token = Undefined
                   /\ lastResponse'.error # "authorization_pending") =>
                   (pollState' = "rejected" /\ pollError' = "UnexpectedAuthGrantError"
                      /\ timers' = 0 /\ inflight' = 0
                      /\ pc' = "done" /\ result' = "UnexpectedAuthGrantError")
       ]_vars
    /\ [][ Settled => pollReqTimes' = pollReqTimes ]_vars

C1_Witness ==
    /\ pollState = "rejected" /\ pollError = "UnexpectedAuthGrantError"
    /\ pendingCount >= 1 /\ lastResponse.error = "slow_down"

\* C2 as stated: once 10 minutes have passed since the first tick the promise
\* is no longer pending, and a promise that settled at or after that moment was
\* rejected with the timeout error, whatever the request in flight did.
C2_Original ==
    (pollState # "none" /\ now - startTime >= timeoutMs) =>
        /\ pollState # "pending"
        /\ (ElapsedAtSettle >= timeoutMs => pollError = "OAuthPollingTimeout")

\* C2, amended: the deadline is checked when a tick starts and only then.  A
\* tick that starts with 10 minutes or more elapsed rejects with the timeout
\* error and sends no request, however many ticks came before; a tick that
\* starts earlier sends its request; and the answer to a request in flight is
\* classified as usual whenever it arrives, it never produces the timeout.
C2_DeadlineAtTickStart ==
    /\ [][ (TickStartStep /\ now' - startTime >= timeoutMs) =>
             /\ pollState' = "rejected" /\ pollError' = "OAuthPollingTimeout"
             /\ pollReqTimes' = pollReqTimes /\ inflight' = 0 /\ timers' = 0
             /\ pc' = "done" /\ result' = "OAuthPollingTimeout"
       ]_vars
    /\ [][ (TickStartStep /\ now' - startTime < timeoutMs) =>
             /\ pollState' = "pending"
             /\ Len(pollReqTimes') = Len(pollReqTimes) + 1 /\ inflight' = 1
       ]_vars
    /\ [][ AnswerStep => pollError' # "OAuthPollingTimeout" ]_vars

C2_Witness ==
    /\ pollError = "OAuthPollingTimeout" /\ ElapsedAtSettle = timeoutMs
    /\ Len(pollReqTimes) >= 2 /\ result = "OAuthPollingTimeout"

\* C3: once authorize has finished after passing the terminal check, by
\* returning tokens or by throwing, the cancellation signal is raised and the
\* prompt is not waiting for input; a prompt that was still waiting when the
\* signal was raised ended without opening the browser.
C3_PromptReleased ==
    (authz \in {"returned", "threw"}) =>
        /\ abortCreated /\ aborted
        /\ promptState # "waiting"
        /\ (promptState # "none" /\ ~enterProcessed) => (promptState = "cancelled" /\ opens = 0)

C3_Witness ==
    authz = "threw" /\ pollError = "OAuthPollingTimeout" /\ promptState = "cancelled"

\* C4: when the poll promise settles before the user's Enter is processed, the
\* browser is never opened, also when Enter is pressed afterwards.
C4_NoOpenAfterSettle == raceOrder = "settleFirst" => opens = 0

C4_Witness == raceOrder = "settleFirst" /\ lateEnter /\ pollState = "resolved" /\ opens = 0

\* C5: the browser is opened at most once, and exactly once when the user's
\* Enter was processed before the cancellation signal was raised.
C5_OpenExactlyOnce ==
    /\ opens <= 1
    /\ (raceOrder = "enterFirst") => opens = 1

C5_Witness == raceOrder = "enterFirst" /\ aborted /\ opens = 1 /\ promptState = "opened"

AllRequests == reqs.discovery + reqs.deviceGrant + reqs.refresh + Len(pollReqTimes)

\* C6: with a token-based config ensureAuthTokenPresence returns true, sends
\* no request of any kind and neither reads nor writes the token store.
C6_TokenConfigShortCircuit ==
    (entry = "ensureAuthTokenPresence" /\ config.authType = "token") =>
        /\ AllRequests = 0 /\ storeReads = 0 /\ storeWrites = 0
        /\ pc \in {"start", "done"}
        /\ (pc = "done" => result = "true")

C6_Witness ==
    /\ entry = "ensureAuthTokenPresence"
    /\ config.authType = "token" /\ pc = "done" /\ result = "true"

\* C7: when loadTokens finds tokens at the start of ensureAuthTokenPresence,
\* the device authorization flow is never started by that call: no device-grant
\* request, no prompt, no poll, also after a failed refresh.
C7_NoDeviceFlowWithStoredTokens ==
    (firstLoad = "tokens") =>
        /\ reqs.deviceGrant = 0 /\ authz = "notcalled"
        /\ promptState = "none" /\ pollState = "none" /\ pollReqTimes = << >>

C7_Witness ==
    /\ firstLoad = "tokens" /\ pc = "done" /\ reqs.refresh = 1
    /\ result \in {"FetchTokenServerError", "UnexpectedAccessTokenResponse"}

StepOrder == << "load", "check", "refreshLoad", "refresh", "reload" >>
StepKind(e) == IF e \in {"checkExpired", "checkFresh"} THEN "check" ELSE e
Occurs(e) == \E i \in 1..Len(events) : events[i] = e

\* C8: within one call the steps load, expiration check, refresh, reload happen
\* in that order; a refresh request is sent only after the load and an
\* expiration check that found the tokens expired; at most one refresh request
\* is sent; tokens found not expired end the call without a refresh request.
C8_RefreshSequencing ==
    (entry = "ensureAuthTokenPresence") =>
    /\ Len(events) <= Len(StepOrder)
    /\ \A i \in 1..Len(events) : StepKind(events[i]) = StepOrder[i]
    /\ reqs.refresh <= 1
    /\ (reqs.refresh = 1) <=> Occurs("refresh")
    /\ Occurs("refresh") => Occurs("checkExpired")
    /\ Occurs("checkFresh") => (reqs.refresh = 0 /\ pc = "done" /\ result = "true")
    /\ (storeReads >= 1) <=> Occurs("load")

C8_Witness ==
    /\ entry = "ensureAuthTokenPresence"
    /\ Len(events) = 5 /\ Occurs("checkExpired") /\ firstLoad = "null"
    /\ storeWrites = 2 /\ result = "true"

\* C9: every network or parse failure (discovery, device grant, any polling
\* tick, refresh) ends the call with an error for the caller.
C9_FailureReachesCaller ==
    (netFailure # "none") =>
        (pc = "done" /\ result \in (AuthErrorCodes \cup {PlainError}))

RequestGapsOk ==
    \A i \in 1..(Len(pollReqTimes) - 1) :
        pollReqTimes[i + 1] - pollReqTimes[i] >= interval * 1000
OnlyPendingSoFar == pendingCount = Len(pollReqTimes)
ResolvedAsClaimed ==
    (pollState = "resolved") =>
        /\ pollValue = lastResponse /\ pollValue.access_token # Undefined
        /\ Len(pollReqTimes) = pendingCount + 1
        /\ RequestGapsOk
        /\ ElapsedAtSettle >= pendingCount * interval * 1000

\* C10 as stated: with an endpoint that answers pending N times and then
\* success, and N x interval below 10 minutes, pollForToken resolves (so it
\* does not time out after N pending answers) with the success payload after
\* exactly N+1 requests, spaced by at least interval, after at least
\* N x interval seconds.
C10_Original ==
    /\ ResolvedAsClaimed
    /\ (OnlyPendingSoFar /\ pendingCount * interval * 1000 < timeoutMs) =>
          pollError # "OAuthPollingTimeout"

\* Two consecutive requests are apart by the delay of the timer between them,
\* less the millisecond by which a timer may fire early on the clock read.
RequestGapsWithinTimerError ==
    \A i \in 1..(Len(pollReqTimes) - 1) :
        pollReqTimes[i + 1] - pollReqTimes[i] >= interval * 1000 - TimerEarlyMs
ResolvedWithinTimerError ==
    (pollState = "resolved") =>
        /\ pollValue = lastResponse /\ pollValue.access_token # Undefined
        /\ Len(pollReqTimes) = pendingCount + 1
        /\ RequestGapsWithinTimerError
        /\ ElapsedAtSettle >= pendingCount * (interval * 1000 - TimerEarlyMs)

\* C10, amended: the same, provided tick N+1 starts before the deadline, that
\* is N x interval plus the time the first N requests took to be answered (and
\* any lateness of the timers) is below 10 minutes; and the spacing of the
\* requests and the time passed are those of the timers, each of which may
\* fire 1 ms early on the clock Date.now() reads.
C10_PendingThenSuccess ==
    /\ [] ResolvedWithinTimerError
    /\ [] ((OnlyPendingSoFar /\ pollError = "OAuthPollingTimeout") =>
             ElapsedAtSettle >= timeoutMs)
    /\ [][ (TickStartStep /\ now' - startTime < timeoutMs) =>
             (Len(pollReqTimes') = Len(pollReqTimes) + 1 /\ inflight' = 1) ]_vars
    /\ [][ (AnswerStep /\ ~lastResponse'.throws /\ lastResponse'.access_token # Undefined) =>
             (pollState' = "resolved" /\ pollValue' = lastResponse') ]_vars

C10_Witness ==
    /\ pollState = "resolved" /\ pendingCount = 3 /\ Len(pollReqTimes) = 4
    /\ ElapsedAtSettle > 3 * interval * 1000

\* C11: with a token endpoint that always answers 'authorization_pending',
\* for every poll interval, the promise of pollForToken is eventually rejected
\* with the timeout error, and that never happens before 600 seconds have
\* passed since pollForToken started.
C11_TimeoutNotBefore600s ==
    (pollError = "OAuthPollingTimeout") =>
        /\ pollState = "rejected"
        /\ ElapsedAtSettle >= 600 * 1000
        /\ ~(ElapsedAtSettle <= 599 * 1000)
C11_AlwaysPendingTimesOut ==
    /\ [] C11_TimeoutNotBefore600s
    /\ \A iv \in Intervals :
         (pollState = "pending" /\ interval = iv)
            ~> (pollState = "rejected" /\ pollError = "OAuthPollingTimeout")

C11_Witness ==
    /\ pollState = "rejected" /\ pollError = "OAuthPollingTimeout"
    /\ pendingCount = Len(pollReqTimes) /\ pendingCount >= 2
    /\ lastResponse.error = "authorization_pending"
    /\ result = "OAuthPollingTimeout"

\* The device authorization flow of this call of forceAuthorize has ended.
DeviceFlowEnded == entry = "forceAuthorize" /\ pc = "done" /\ authz \in {"returned", "threw"}

\* C12: when the device authorization flow ends without tokens, forceAuthorize
\* returns null instead of failing and saves nothing to the token store;
\* otherwise it returns the tokens obtained.
C12_NullWhenNoTokens ==
    DeviceFlowEnded =>
        IF pollState = "resolved"
          THEN result = "tokens" /\ retTokens.present
          ELSE result = "null" /\ ~retTokens.present /\ store = store0 /\ storeWrites = 0

\* C13: whenever forceAuthorize completes successfully (the config is then
\* not token-based), the tokens built from the successful token response are
\* in the token store when it returns, written by one saveTokens call, and the
\* stored tokens equal the tokens it returns.
C13_SavedBeforeReturn ==
    (entry = "forceAuthorize" /\ pc = "done" /\ result = "tokens") =>
        /\ ~isGleanTokenConfig(config)
        /\ pollState = "resolved" /\ isTokenSuccess(pollValue)
        /\ retTokens = buildFromTokenResponse(pollValue, settledAt)
        /\ store = retTokens
        /\ storeWrites = 1

C13_Witness ==
    /\ entry = "forceAuthorize" /\ pc = "done" /\ result = "tokens"
    /\ isBasicConfig(config) /\ store0.present /\ store # store0
    /\ pendingCount >= 1

\* The error each of the two OAuth-only entry points reports for a token config.
ConfigMisuseError(e) ==
    IF e = "forceAuthorize" THEN "GleanTokenConfigUsedForOAuth"
    ELSE "GleanTokenConfigUsedForOAuthRefresh"

\* C14: with a token-based config, forceAuthorize and forceRefreshTokens end
\* with their config-misuse error and nothing else; no device-grant request
\* and no request to the token endpoint (poll or refresh) is ever sent, and
\* the token store is neither read for refresh nor written.
C14_TokenConfigRejected ==
    (isGleanTokenConfig(config) /\ entry \in {"forceAuthorize", "forceRefreshTokens"}) =>
        /\ reqs.deviceGrant = 0 /\ reqs.refresh = 0 /\ pollReqTimes = << >>
        /\ authz = "notcalled" /\ refreshTokenSent = "none"
        /\ store = store0 /\ storeWrites = 0
        /\ pc \in {StartPc(entry), "done"}
        /\ (pc = "done" => result = ConfigMisuseError(entry))

C14_Witness ==
    /\ isGleanTokenConfig(config) /\ pc = "done"
    /\ \/ entry = "forceAuthorize" /\ result = "GleanTokenConfigUsedForOAuth"
       \/ entry = "forceRefreshTokens" /\ result = "GleanTokenConfigUsedForOAuthRefresh"
    /\ store0.present /\ store0.refreshToken # Undefined /\ isTTY

\* C15: no refresh request is sent without a refresh token.  A refresh
\* request carries the stored refresh token; forceRefreshTokens ends with
\* RefreshTokenNotFound when the store holds no tokens and with
\* RefreshTokenMissing when the stored record has no refreshToken, in both
\* cases with no request sent to the token endpoint.
C15_NoRefreshWithoutRefreshToken ==
    /\ (reqs.refresh > 0) =>
          (refreshTokenSent \notin {"none", Undefined})
    /\ (result = "RefreshTokenNotFound") => (~store.present /\ reqs.refresh = 0)
    /\ (result = "RefreshTokenMissing") =>
          (store.present /\ store.refreshToken = Undefined /\ reqs.refresh = 0)
    /\ (/\ entry = "forceRefreshTokens" /\ pc = "done"
        /\ ~isGleanTokenConfig(config)
        /\ result \notin (ProtectedResourceErrors \cup AuthServerErrors \cup {RawError})) =>
          /\ ~store0.present => result = "RefreshTokenNotFound"
          /\ (store0.present /\ store0.refreshToken = Undefined) =>
                result = "RefreshTokenMissing"

C15_Witness ==
    /\ entry = "forceRefreshTokens" /\ pc = "done" /\ reqs.refresh = 0
    /\ \/ result = "RefreshTokenNotFound" /\ ~store.present
       \/ result = "RefreshTokenMissing" /\ store.present

\* forceRefreshTokens has returned: to its caller, or to ensureAuthTokenPresence,
\* which then reloads and returns true.
RefreshSucceeded == pc = "done" /\ reqs.refresh = 1 /\ result \in {"void", "true"}

\* C16: after a successful forceRefreshTokens the token store holds exactly
\* the tokens built from the refresh response, with nothing of the old record
\* in them: when the response has no refresh_token the stored tokens have no
\* refresh token, although the refresh token of the old record was sent.
C16_StoreReplacedByRefresh ==
    RefreshSucceeded =>
        /\ isTokenSuccess(refreshAnswer)
        /\ store = buildFromTokenResponse(refreshAnswer, now)
        /\ store.refreshToken = refreshAnswer.refresh_token
        /\ store.refreshToken # refreshTokenSent

C16_Witness ==
    /\ entry = "forceRefreshTokens" /\ RefreshSucceeded
    /\ store0.refreshToken = "rt_old" /\ refreshTokenSent = "rt_old"
    /\ refreshAnswer.refresh_token = Undefined
    /\ store.refreshToken = Undefined /\ store.accessToken = "at_ref"

Requested(url) == \E i \in 1..Len(discReqs) : discReqs[i] = url
TimesRequested(url) == Cardinality({ i \in 1..Len(discReqs) : discReqs[i] = url })
\* The request failed as a request: no response, or a response that is not 2xx.
RequestFailed(a) == a.kind \in {"network", "notOk"}

\* C17: authorization server metadata discovery requests
\* .well-known/openid-configuration first; it requests
\* .well-known/oauth-authorization-server if and only if the first request
\* failed with a network error or a non-2xx status, so not after a 2xx answer
\* that is unparseable or lacks a field; when both requests fail, discovery
\* fails with the authorization server metadata fetch error.
C17_FallbackOnlyOnFetchFailure ==
    /\ \A i \in 1..Len(discReqs) :
         (discReqs[i] = "oauth-authorization-server") =>
            (i > 1 /\ discReqs[i - 1] = "openid-configuration")
    /\ TimesRequested("openid-configuration") <= 1
    /\ TimesRequested("oauth-authorization-server") <= 1
    /\ Requested("oauth-authorization-server") <=> RequestFailed(oidcAnswer)
    /\ (oidcAnswer.kind \in {"unparseable", "json"}) =>
          (pc \notin {"oidc_wait", "oas_wait"} /\ oasAnswer = NoASAnswer)
    /\ (RequestFailed(oidcAnswer) /\ RequestFailed(oasAnswer)) =>
          (pc = "done" /\ result = "AuthServerMetadataNetwork" /\ oauthCfg = NoConfig)

C17_Witness ==
    /\ discReqs = << "openid-configuration", "oauth-authorization-server" >>
    /\ oidcAnswer.kind = "notOk" /\ oasAnswer.kind = "network"
    /\ pc = "done" /\ result = "AuthServerMetadataNetwork"

DiscoveryEntry == entry \in {"attemptUpgradeConfigToOAuth", "discoverOAuthConfig"}

\* C18: for a basic config that has both issuer and clientId, discovery never
\* requests the protected resource metadata and the OAuth config it returns
\* carries the config's issuer, clientId and clientSecret; for a basic config
\* that lacks either, the protected resource metadata is requested exactly
\* once, before any request for the authorization server metadata.
C18_ProtectedResourceOnlyWhenNeeded ==
    (DiscoveryEntry /\ isBasicConfig(config)) =>
        IF config.issuer # Undefined /\ config.clientId # Undefined
          THEN /\ ~Requested("oauth-protected-resource")
               /\ prAnswer = NoPRAnswer
               /\ (pc = "done" /\ result = "config") =>
                     /\ isOAuthConfig(oauthCfg)
                     /\ oauthCfg.issuer = config.issuer
                     /\ oauthCfg.clientId = config.clientId
                     /\ SecretOf(oauthCfg) = SecretOf(config)
          ELSE (pc # "disc_start") =>
                     /\ discReqs[1] = "oauth-protected-resource"
                     /\ TimesRequested("oauth-protected-resource") = 1

C18_Witness ==
    /\ DiscoveryEntry /\ isBasicConfig(config) /\ pc = "done" /\ result = "config"
    /\ \/ /\ config.issuer = "iss" /\ config.clientId = "cid" /\ config.clientSecret = "sec"
          /\ oauthCfg.clientSecret = "sec" /\ Len(discReqs) = 2
       \/ /\ config.issuer = "iss" /\ config.clientId = Undefined
          /\ oauthCfg.issuer = "iss_pr" /\ Len(discReqs) = 3

\* The failure causes an answer of the protected resource metadata URL shows.
\* A body of JSON null has neither an authorization servers list nor a client
\* id.
PRCauses(a) ==
    IF a.kind \in {"network", "notOk", "unparseable"} THEN {a.kind}
    ELSE IF a.kind = "null" THEN {"missingAuthServers", "missingClientId"}
    ELSE IF a.kind # "json" THEN {}
    ELSE (IF a.authorization_servers.type # "array" \/ a.authorization_servers.items = << >>
            THEN {"missingAuthServers"} ELSE {})
         \cup (IF a.glean_device_flow_client_id = Undefined
                 THEN {"missingClientId"} ELSE {})
\* The failure causes an answer of an authorization server metadata URL shows.
ASCauses(a) ==
    IF a.kind \in {"network", "notOk"} THEN {"fetch"}
    ELSE IF a.kind = "unparseable" THEN {"unparseable"}
    ELSE IF a.kind = "null" THEN {"missingTokenEndpoint", "missingDeviceEndpoint"}
    ELSE IF a.kind # "json" THEN {}
    ELSE (IF a.token_endpoint = Undefined THEN {"missingTokenEndpoint"} ELSE {})
         \cup (IF a.device_authorization_endpoint = Undefined
                 THEN {"missingDeviceEndpoint"} ELSE {})
MissingEndpoint(a) == ASCauses(a) \cap {"missingTokenEndpoint", "missingDeviceEndpoint"} # {}
\* The answer fetchAuthorizationServerMetadata ended up with.
LastASAnswer == IF oasAnswer # NoASAnswer THEN oasAnswer ELSE oidcAnswer

\* C19: discovery reports each failure cause with its own code.  A failed
\* protected resource fetch ends discovery without a config and with a code
\* that no answer showing only other causes (of network failure, non-2xx,
\* unparseable body, missing authorization servers, missing client id) gets; a
\* failed authorization server metadata fetch ends discovery without a config,
\* and the codes for a missing token_endpoint and a missing
\* device_authorization_endpoint differ from each other and from the codes for
\* a failed request and for an unparseable body.
C19_DistinctDiscoveryCodes ==
    (DiscoveryEntry /\ pc = "done") =>
        /\ (PRCauses(prAnswer) # {}) =>
              /\ result \in ProtectedResourceErrors
              /\ result = ProtectedResourceFailure(prAnswer)
              /\ oauthCfg = NoConfig /\ metadata = NoConfig
              /\ \A a \in PRAnswers :
                    (PRCauses(a) # {} /\ PRCauses(a) \cap PRCauses(prAnswer) = {}) =>
                        ProtectedResourceFailure(a) # result
        /\ (ASCauses(LastASAnswer) # {}) =>
              /\ result \in AuthServerErrors
              /\ result = AuthServerMetadataFailure(LastASAnswer)
              /\ oauthCfg = NoConfig /\ metadata = NoConfig
              /\ \A a \in ASAnswers :
                    (/\ ASCauses(a) # {} /\ ASCauses(a) \cap ASCauses(LastASAnswer) = {}
                     /\ MissingEndpoint(a) \/ MissingEndpoint(LastASAnswer)) =>
                        AuthServerMetadataFailure(a) # result

\* What an entry point returns when it does not fail.
SuccessResults == {"true", "false", "tokens", "void", "config"}

\* C20: every failure of ensureAuthTokenPresence, forceAuthorize,
\* forceRefreshTokens or attemptUpgradeConfigToOAuth, whatever its cause,
\* reaches the caller as an AuthError with a code of the taxonomy, never as
\* another kind of error without a code.
C20_OnlyAuthErrors ==
    (entry # "discoverOAuthConfig" /\ pc = "done" /\ result \notin SuccessResults) =>
        result \in AuthErrorCodes

\* C23: in every state of pollForToken at most one tick is scheduled or in
\* flight; the promise is settled at most once (its state, value, error and
\* settling time never change afterwards); and once it has settled no tick is
\* scheduled or in flight and no further request is sent to the token endpoint.
C23_SingleTickChain ==
    /\ [](timers + inflight <= 1)
    /\ [](Settled => (timers = 0 /\ inflight = 0))
    /\ [][ Settled =>
             /\ pollState' = pollState /\ pollValue' = pollValue
             /\ pollError' = pollError /\ settledAt' = settledAt
             /\ pollReqTimes' = pollReqTimes
             /\ timers' = 0 /\ inflight' = 0 ]_vars

C23_Witness ==
    /\ pollState = "rejected" /\ pollError = "OAuthPollingTimeout"
    /\ Len(pollReqTimes) >= 3 /\ pendingCount = Len(pollReqTimes)
    /\ timers = 0 /\ inflight = 0
    /\ lateEnter

\* A step in which saveTokens is called or the content of the store changes.
StoreWritten == store' # store \/ storeWrites' # storeWrites
\* A step in which a successful token response arrives: for the device code,
\* with the promise of pollForToken pending, or for the refresh request.
TokenResponseStep ==
    \/ /\ pollState = "pending" /\ inflight' < inflight
       /\ isTokenSuccess(lastResponse') /\ ~lastResponse'.throws
       /\ store' = buildFromTokenResponse(lastResponse', now')
    \/ /\ pc = "refresh_wait" /\ pc' = "done"
       /\ isTokenSuccess(refreshAnswer') /\ ~refreshAnswer'.throws
       /\ store' = buildFromTokenResponse(refreshAnswer', now')

\* C24: forceAuthorize and forceRefreshTokens write the token store only in
\* the step in which a successful token response arrives; as long as a call
\* of either has not succeeded, and whatever it failed with, the store holds
\* exactly what it held before the call and saveTokens was never called, so a
\* failed refresh leaves the old tokens in place.
C24_StoreWrittenOnlyOnSuccess ==
    /\ [][ StoreWritten => TokenResponseStep ]_vars
    /\ []( (entry \in {"forceAuthorize", "forceRefreshTokens"}
              /\ result \notin {"tokens", "void"}) =>
                (store = store0 /\ storeWrites = 0) )
    /\ []( (pc = "done" /\ reqs.refresh = 1 /\ result \notin SuccessResults) =>
                (~isTokenSuccess(refreshAnswer) /\ store.refreshToken = refreshTokenSent) )

C24_Witness ==
    /\ entry = "forceRefreshTokens" /\ pc = "done" /\ reqs.refresh = 1
    /\ result = "FetchTokenServerError" /\ refreshAnswer.error = "invalid_grant"
    /\ store = store0 /\ store.present /\ isExpired(store, now)

Upgrading == entry = "attemptUpgradeConfigToOAuth"
Upgraded == Upgrading /\ pc = "done" /\ result = "config"

\* C21: attemptUpgradeConfigToOAuth is idempotent.  For a token config it
\* returns the config unchanged, sends no request and does not write the
\* metadata cache.  For another config, when discovery succeeds, it returns
\* the discovered OAuth config and saves it in the metadata cache, without a
\* clientSecret key when the secret is undefined.  Applied again to its own
\* result it returns an equal config, sends no further discovery request and
\* leaves the cached metadata equal.
C21_UpgradeIdempotent ==
    /\ (Upgrading /\ round = 1 /\ isGleanTokenConfig(config)) =>
          /\ discReqs = << >> /\ metadataWrites = 0 /\ metadata = NoConfig
          /\ (pc = "done") => (result = "config" /\ oauthCfg = config)
    /\ (Upgraded /\ round = 1 /\ ~isGleanTokenConfig(config)) =>
          /\ isOAuthConfig(oauthCfg)
          /\ metadata = oauthCfg /\ metadataWrites = 1
          /\ oauthCfg.clientSecret # Undefined
          /\ isOAuthConfig(config) =>
                (discReqs = << >> /\ oauthCfg = [config EXCEPT !.clientSecret = oauthCfg.clientSecret]
                   /\ SecretOf(oauthCfg) = SecretOf(config))
          /\ isBasicConfig(config) =>
                /\ oauthCfg.issuer = found.issuer /\ oauthCfg.clientId = found.clientId
                /\ SecretOf(oauthCfg) = found.clientSecret
                /\ oauthCfg.tokenEndpoint = LastASAnswer.token_endpoint
                /\ oauthCfg.authorizationEndpoint = LastASAnswer.device_authorization_endpoint
    /\ (Upgrading /\ round = 2) =>
          /\ Len(discReqs) = firstReqs
          /\ metadata = firstMetadata
          /\ config = firstCfg
          /\ (pc = "done") => (result = "config" /\ oauthCfg = firstCfg)

C21_Witness ==
    /\ Upgraded /\ round = 2 /\ firstReqs = 3
    /\ oauthCfg = firstCfg /\ isOAuthConfig(oauthCfg)
    /\ oauthCfg.clientSecret = Absent /\ prAnswer.glean_device_flow_client_sec = Undefined
    /\ metadata = oauthCfg /\ metadataWrites = 2

(***************************************************************************)
(* C22: refreshes are not single-flight                                    *)
(***************************************************************************)
\* The caller that called saveTokens last.
LastSaver == saves[Len(saves)]
\* Caller c has sent a refresh request.
SentRefresh(c) == calls[c].sent # "none"
\* Both callers loaded the same expired tokens and sent the same refresh token.
BothSentSame ==
    /\ SentRefresh(1) /\ SentRefresh(2)
    /\ calls[1].loaded = store0 /\ calls[2].loaded = store0
    /\ isExpired(store0, now)
    /\ calls[1].sent = calls[2].sent

\* C22: nothing makes one overlapping call of ensureAuthTokenPresence or
\* forceRefreshTokens wait for the other: each caller that reaches the request
\* sends the refresh token of the tokens it loaded itself, whether or not the
\* other caller has a request under way with the same refresh token; the
\* token store holds the tokens built from the response of the caller that
\* saved last, whatever the order of arrival of the responses, and the
\* initial tokens while no caller has saved.
C22_RefreshNotSingleFlight ==
    /\ \A c \in Callers :
         /\ SentRefresh(c) => calls[c].sent = calls[c].loaded.refreshToken
         /\ (calls[c].pc \in {"refresh_wait", "body_wait"}) => SentRefresh(c)
    /\ saves = << >> => store = store0
    /\ saves # << >> => store = buildFromTokenResponse(calls[LastSaver].answer, now)
    /\ \A i \in 1..Len(saves) : isTokenSuccess(calls[saves[i]].answer)

\* Both calls loaded the same expired tokens and sent the same refresh
\* token; the response of caller 1 arrived first, but caller 1 saved last and
\* the store holds its tokens.
C22_Witness ==
    /\ BothSentSame
    /\ arrivals = << 1, 2 >>
    /\ saves = << 2, 1 >>
    /\ store.accessToken = "at_ref1"
    /\ calls[1].entry = "ensureAuthTokenPresence"
    /\ calls[2].entry = "forceRefreshTokens"
    /\ \A c \in Callers : calls[c].pc = "done"
====
